---- MODULE Spec2Model ----
(***************************************************************************)
(* Model of the VEML7700 ambient light sensor driver                       *)
(* (adafruit_veml7700.py): construction with its retry loop, the register  *)
(* fields gain / integration time / shutdown, resolution, compute_lux,     *)
(* lux, autolux, _read_als_wait and wait_autolux.                          *)
(*                                                                         *)
(* Units.  Times are in milliseconds.  Gains are in eighths (1/8 -> 1,     *)
(* 1/4 -> 2, 1 -> 8, 2 -> 16).  Resolution and lux are in units of 0.0001  *)
(* lux, so resolution_at_max = 0.0042 is 42.  All ratios the code forms    *)
(* (800/t, 2/g) are powers of two, so the integer arithmetic is exact.     *)
(*                                                                         *)
(* Clock.  The driver reads the monotonic clock only to form               *)
(* milliseconds() - last_read (line 358) and to stamp last_read (lines     *)
(* 233, 361).  The model keeps that difference, since_last_read, instead   *)
(* of the two absolute values; it saturates at MaxElapsed, which is not    *)
(* below the largest time_to_wait (2 * 800), so no comparison the code     *)
(* makes is changed by the saturation.                                     *)
(***************************************************************************)
EXTENDS Integers, Sequences, FiniteSets, TLC

\* ------------------------------------------------------------ bounds
\* Saturation point of every elapsed-time value of the model.
MaxElapsed == 1600
\* Time that may pass on the clock while a call is between two of its steps.
MaxCallDelay == 50

\* ------------------------------------------------- register constants
ALS_GAIN_1 == 0
ALS_GAIN_2 == 1
ALS_GAIN_1_8 == 2
ALS_GAIN_1_4 == 3

ALS_25MS == 12
ALS_50MS == 8
ALS_100MS == 0
ALS_200MS == 1
ALS_400MS == 2
ALS_800MS == 3

\* Gain values, in eighths.
gain_values ==
    (ALS_GAIN_2 :> 16) @@ (ALS_GAIN_1 :> 8) @@ (ALS_GAIN_1_4 :> 2) @@ (ALS_GAIN_1_8 :> 1)

\* Convenience list of gains (the code indexes it from 0).
gain_settings == <<ALS_GAIN_1_8, ALS_GAIN_1_4, ALS_GAIN_1, ALS_GAIN_2>>

\* Integration time values, in ms.
integration_time_values ==
    (ALS_25MS :> 25) @@ (ALS_50MS :> 50) @@ (ALS_100MS :> 100) @@
    (ALS_200MS :> 200) @@ (ALS_400MS :> 400) @@ (ALS_800MS :> 800)

\* Convenience list of integration times (the code indexes it from 0).
integration_time_settings ==
    <<ALS_25MS, ALS_50MS, ALS_100MS, ALS_200MS, ALS_400MS, ALS_800MS>>

\* list[i] with Python's 0-based index; a negative index counts from the
\* end of the list.
At(list, i) == IF i < 0 THEN list[Len(list) + i + 1] ELSE list[i + 1]

GainCodes == {At(gain_settings, i) : i \in 0..3}
ITCodes == {At(integration_time_settings, i) : i \in 0..5}

\* ------------------------------------------------------ pure functions
\* integration_time_value(): the value of the latched integration time code.
integration_time_value(it_code) == integration_time_values[it_code]

\* gain_value(): the value (in eighths) of the latched gain code.
gain_value(gain_code) == gain_values[gain_code]

resolution_at_max == 42
gain_max == 2
integration_time_max == 800

\* resolution without the gain factor of line 280.
resolution_no_gain(gain_code, it_code) ==
    resolution_at_max
    * (integration_time_max \div integration_time_value(it_code))

\* resolution(): lux per count, in 0.0001 lux, from the latched codes.
resolution(gain_code, it_code) ==
    IF gain_value(gain_code) = gain_max * 8
       /\ integration_time_value(it_code) = integration_time_max
    THEN resolution_at_max
    ELSE resolution_at_max
         * (integration_time_max \div integration_time_value(it_code))
         * ((gain_max * 8) \div gain_value(gain_code))

\* compute_lux(als, use_correction): resolution() * als; the non-linear
\* correction is a floating point polynomial of that product, kept here as
\* the product together with the flag saying the polynomial was applied.
compute_lux(gain_code, it_code, als, use_correction) ==
    [kind |-> "lux", val |-> resolution(gain_code, it_code) * als,
     corrected |-> use_correction]

\* time_to_wait without the factor 2 of line 357.
time_to_wait_single(it_code) == integration_time_value(it_code)

\* _read_als_wait: required spacing between reads for the latched code.
time_to_wait(it_code) == 2 * integration_time_value(it_code)

\* _read_als_wait: the argument of time.sleep (0: sleep is not called),
\* (time_to_wait - time_waited), given the two values of lines 357-358.
sleep_request(ttw, time_waited) ==
    IF time_waited < ttw THEN ttw - time_waited ELSE 0

\* actual_wait_time with min in place of the max of line 373.
actual_wait_time_min(it_code, wait_time) ==
    LET minimum_wait_time == integration_time_value(it_code)
    IN  IF minimum_wait_time <= wait_time THEN minimum_wait_time ELSE wait_time

\* wait_autolux: the argument of time.sleep, in ms.
actual_wait_time(it_code, wait_time) ==
    LET minimum_wait_time == integration_time_value(it_code)
    IN  IF minimum_wait_time >= wait_time THEN minimum_wait_time ELSE wait_time

\* --------------------------------------------------------------- inputs
\* Raw 16 bit readings the light register may hold, around the two
\* thresholds of autolux and at the ends of the range.
Readings == {0, 100, 101, 10000, 10001, 65535}

\* wait_time arguments of wait_autolux, in ms.
WaitTimes == {0, 100, 1000}

\* Amounts by which the clock advances in one step of time, in ms.
TickSteps == {50}

\* Amounts by which time.sleep may return late, in ms.
SleepOvershoot == {0, 50}

\* Number of attempts of the construction loop, range(3).
Attempts == 3

\* Threads that may hold a reference to the driver instance.
Threads == {"t1", "t2"}

\* als before line 331 has assigned it; no time.sleep call made.
NoReading == 0 - 1
NoSleep == 0 - 1
\* No reading taken yet, so no settings it was taken under.
NoCode == 0 - 1
NoRet == [kind |-> "none", val |-> 0, corrected |-> FALSE]

\* ---------------------------------------------------------------- state
VARIABLES
    dev_gain,         \* ALS_CONF_0 bits 11-12 as latched in the device
    dev_it,           \* ALS_CONF_0 bits 6-9 as latched in the device
    dev_sd,           \* ALS_CONF_0 bit 0 (shutdown) as latched in the device
    inst,             \* __init__: "gain" (line 225), "shutdown" (line 226),
                      \* "ok" (returned), "failed" (RuntimeError raised)
    attempt,          \* __init__: the iteration of range(3), from 1
    fails,            \* __init__: iterations that ended in OSError so far
    seeded,           \* the attribute last_read exists
    since_last_read,  \* milliseconds() - last_read
    callers,          \* the threads that call into the instance
    thread            \* per thread: position and locals of its current call

vars == <<dev_gain, dev_it, dev_sd, inst, attempt, fails, seeded,
          since_last_read, callers, thread>>

dev == <<dev_gain, dev_it, dev_sd>>
ctor == <<inst, attempt, fails, seeded>>

Clip(x) == IF x > MaxElapsed THEN MaxElapsed ELSE x

\* Locals of a thread that is in no call.
IdleLocals ==
    [pc |-> "idle", op |-> "none", site |-> "none",
     gain_index |-> 0, it_index |-> 0, use_correction |-> FALSE,
     als |-> NoReading, wait_time |-> 0, ret |-> NoRet,
     \* history of the current call, for the properties
     fault |-> FALSE, first_als |-> NoReading, reads |-> 0, writes |-> 0,
     since_prev |-> 0, since_invoke |-> 0, slept |-> NoSleep, sleeps |-> 0,
     \* the settings latched in the device when als was read
     read_gain |-> NoCode, read_it |-> NoCode]

\* The device as found when the driver is constructed: any valid codes.
Init ==
    /\ dev_gain \in GainCodes
    /\ dev_it \in ITCodes
    /\ dev_sd \in BOOLEAN
    /\ inst = "gain"
    /\ attempt = 1
    /\ fails = 0
    /\ seeded = FALSE
    /\ since_last_read = 0
    /\ callers = {"t1"}
    /\ thread = [t \in Threads |-> IdleLocals]

\* ---------------------------------------------------------- construction
\* An iteration of the loop of __init__ raised OSError: next iteration, or
\* the else branch of the for loop after the last one.
CtorFail ==
    /\ fails' = fails + 1
    /\ IF attempt = Attempts
       THEN inst' = "failed" /\ attempt' = attempt
       ELSE inst' = "gain" /\ attempt' = attempt + 1
    /\ UNCHANGED <<dev, seeded, since_last_read, callers, thread>>

\* CtorGain with the OSError of the gain write swallowed on its own, so
\* that the iteration goes on to the shutdown write.
CtorGain_swallow ==
    /\ inst = "gain"
    /\ \E ok \in BOOLEAN :
         /\ dev_gain' = IF ok THEN ALS_GAIN_1_8 ELSE dev_gain
         /\ inst' = "shutdown"
         /\ UNCHANGED <<dev_it, dev_sd, attempt, fails, seeded,
                        since_last_read, callers, thread>>

\* line 225: self.light_gain = self.ALS_GAIN_1_8
CtorGain ==
    /\ inst = "gain"
    /\ \E ok \in BOOLEAN :
         IF ok
         THEN /\ dev_gain' = ALS_GAIN_1_8
              /\ inst' = "shutdown"
              /\ UNCHANGED <<dev_it, dev_sd, attempt, fails, seeded,
                             since_last_read, callers, thread>>
         ELSE CtorFail

\* lines 226-233: self.light_shutdown = False; break; last_read = now
CtorShutdown ==
    /\ inst = "shutdown"
    /\ \E ok \in BOOLEAN :
         IF ok
         THEN /\ dev_sd' = FALSE
              /\ inst' = "ok"
              /\ seeded' = TRUE
              /\ since_last_read' = 0
              /\ UNCHANGED <<dev_gain, dev_it, attempt, fails, callers, thread>>
         ELSE CtorFail

\* ------------------------------------------------------------- calls
\* Thread t may start a call: the instance exists and t is in no call.  A
\* single caller makes its calls one after the other.
CanCall(t) ==
    /\ inst = "ok"
    /\ t \in callers
    /\ thread[t].pc = "idle"

\* A register access of thread t's call raised OSError: the call is left.
Raise(t) ==
    thread' = [thread EXCEPT ![t] =
                 [IdleLocals EXCEPT !.pc = "raised", !.op = thread[t].op,
                                    !.fault = TRUE,
                                    !.reads = thread[t].reads,
                                    !.writes = thread[t].writes]]

\* The caller takes the result (or the exception) of t's finished call.
Return(t) ==
    /\ thread[t].pc \in {"done", "raised"}
    /\ thread' = [thread EXCEPT ![t] = IdleLocals]
    /\ UNCHANGED <<dev, ctor, since_last_read, callers>>

\* light_gain = g by the caller (RWBits, line 167).
SetGain(t, g) ==
    /\ CanCall(t)
    /\ dev_gain' = g
    /\ UNCHANGED <<dev_it, dev_sd, ctor, since_last_read, callers, thread>>

\* light_integration_time = it by the caller (RWBits, line 189).
SetIntegrationTime(t, it) ==
    /\ CanCall(t)
    /\ dev_it' = it
    /\ UNCHANGED <<dev_gain, dev_sd, ctor, since_last_read, callers, thread>>

\* resolution() called by the caller: reads the two register fields.
Resolution(t) ==
    /\ CanCall(t)
    /\ \E ok \in BOOLEAN :
         IF ok
         THEN thread' = [thread EXCEPT ![t] =
                [IdleLocals EXCEPT !.pc = "done", !.op = "resolution",
                   !.ret = [kind |-> "resolution",
                            val |-> resolution(dev_gain, dev_it),
                            corrected |-> FALSE]]]
         ELSE thread' = [thread EXCEPT ![t] =
                [IdleLocals EXCEPT !.pc = "raised", !.op = "resolution",
                                   !.fault = TRUE]]
    /\ UNCHANGED <<dev, ctor, since_last_read, callers>>

\* compute_lux(als, use_correction) called by the caller.
ComputeLux(t, als, use_correction) ==
    /\ CanCall(t)
    /\ \E ok \in BOOLEAN :
         IF ok
         THEN thread' = [thread EXCEPT ![t] =
                [IdleLocals EXCEPT !.pc = "done", !.op = "compute_lux",
                   !.als = als, !.use_correction = use_correction,
                   !.ret = compute_lux(dev_gain, dev_it, als, use_correction)]]
         ELSE thread' = [thread EXCEPT ![t] =
                [IdleLocals EXCEPT !.pc = "raised", !.op = "compute_lux",
                                   !.fault = TRUE]]
    /\ UNCHANGED <<dev, ctor, since_last_read, callers>>

\* Lux reading the light register through the timing guard, which stamps
\* last_read.
Lux_guarded(t) ==
    /\ CanCall(t)
    /\ \E raw \in Readings :
         thread' = [thread EXCEPT ![t] =
           [IdleLocals EXCEPT !.pc = "done", !.op = "lux", !.als = raw,
              !.ret = [kind |-> "lux",
                       val |-> resolution(dev_gain, dev_it) * raw,
                       corrected |-> FALSE]]]
    /\ since_last_read' = 0
    /\ UNCHANGED <<dev, ctor, callers>>

\* The lux property: resolution() * light, light read without the guard.
Lux(t) ==
    /\ CanCall(t)
    /\ \E ok \in BOOLEAN, raw \in Readings :
         IF ok
         THEN thread' = [thread EXCEPT ![t] =
                [IdleLocals EXCEPT !.pc = "done", !.op = "lux", !.als = raw,
                   !.ret = [kind |-> "lux",
                            val |-> resolution(dev_gain, dev_it) * raw,
                            corrected |-> FALSE]]]
         ELSE thread' = [thread EXCEPT ![t] =
                [IdleLocals EXCEPT !.pc = "raised", !.op = "lux",
                                   !.fault = TRUE]]
    /\ UNCHANGED <<dev, ctor, since_last_read, callers>>

\* wait_autolux(wait_time): one sleep of max(minimum_wait_time, wait_time).
WaitAutolux(t, wait_time) ==
    /\ CanCall(t)
    /\ \E ok \in BOOLEAN, over \in SleepOvershoot :
         IF ok
         THEN LET request == actual_wait_time(dev_it, wait_time)
              IN  /\ thread' = [thread EXCEPT ![t] =
                       [IdleLocals EXCEPT !.pc = "done", !.op = "wait_autolux",
                          !.wait_time = wait_time, !.slept = request,
                          !.sleeps = 1, !.since_invoke = Clip(request + over)]]
                  /\ since_last_read' = Clip(since_last_read + request + over)
         ELSE /\ thread' = [thread EXCEPT ![t] =
                   [IdleLocals EXCEPT !.pc = "raised", !.op = "wait_autolux",
                                      !.fault = TRUE]]
              /\ UNCHANGED since_last_read
    /\ UNCHANGED <<dev, ctor, callers>>

\* ------------------------------------------------------ _read_als_wait
\* lines 357-361: read the integration time, sleep for what is left of
\* time_to_wait, then stamp last_read.
ReadAlsWait(t) ==
    /\ thread[t].pc = "read_wait"
    /\ \E ok \in BOOLEAN, over \in SleepOvershoot :
         IF ok
         THEN LET time_waited == since_last_read
                  request == sleep_request(time_to_wait(dev_it), time_waited)
                  passed == IF request > 0 THEN request + over ELSE 0
              IN  /\ thread' = [thread EXCEPT ![t].pc = "read_light",
                       ![t].slept = request,
                       ![t].sleeps = IF request > 0 THEN 1 ELSE 0,
                       ![t].since_prev = Clip(since_last_read + passed),
                       ![t].since_invoke = Clip(passed)]
                  /\ since_last_read' = 0
         ELSE Raise(t) /\ UNCHANGED since_last_read
    /\ UNCHANGED <<dev, ctor, callers>>

\* Where autolux continues after the read at call site `site`.
AfterRead(site) ==
    CASE site = "first" -> "branch"
      [] site = "low" -> "low_loop"
      [] site = "high" -> "high_loop"

\* ReadLight with a failed read swallowed: autolux goes on with the value
\* als had before.
ReadLight_stale(t) ==
    /\ thread[t].pc = "read_light"
    /\ \E ok \in BOOLEAN, raw \in Readings :
         thread' = [thread EXCEPT ![t].pc = AfterRead(thread[t].site),
            ![t].als = IF ok THEN raw ELSE @,
            ![t].fault = ~ok,
            ![t].first_als = IF thread[t].site = "first" /\ ok THEN raw ELSE @,
            ![t].reads = @ + 1,
            ![t].read_gain = IF ok THEN dev_gain ELSE @,
            ![t].read_it = IF ok THEN dev_it ELSE @,
            ![t].since_prev = 0, ![t].since_invoke = 0,
            ![t].slept = NoSleep, ![t].sleeps = 0]
    /\ UNCHANGED <<dev, ctor, since_last_read, callers>>

\* line 362: return self.light
ReadLight(t) ==
    /\ thread[t].pc = "read_light"
    /\ \E ok \in BOOLEAN, raw \in Readings :
         IF ok
         THEN thread' = [thread EXCEPT ![t].pc = AfterRead(thread[t].site),
                 ![t].als = raw,
                 ![t].first_als = IF thread[t].site = "first" THEN raw ELSE @,
                 ![t].reads = @ + 1,
                 ![t].read_gain = dev_gain, ![t].read_it = dev_it,
                 ![t].since_prev = 0, ![t].since_invoke = 0,
                 ![t].slept = NoSleep, ![t].sleeps = 0]
         ELSE Raise(t)
    /\ UNCHANGED <<dev, ctor, since_last_read, callers>>

\* -------------------------------------------------------------- autolux
\* lines 324-329: the locals, and the two discarded index() lookups, each
\* of which reads its register field.
AutoluxBegin(t) ==
    /\ CanCall(t)
    /\ \E ok \in BOOLEAN :
         IF ok
         THEN thread' = [thread EXCEPT ![t] =
                [IdleLocals EXCEPT !.pc = "read_wait", !.op = "autolux",
                   !.site = "first", !.gain_index = 0, !.it_index = 2,
                   !.use_correction = FALSE]]
         ELSE thread' = [thread EXCEPT ![t] =
                [IdleLocals EXCEPT !.pc = "raised", !.op = "autolux",
                                   !.fault = TRUE]]
    /\ UNCHANGED <<dev, ctor, since_last_read, callers>>

\* low_light with the comparison of line 333 made strict.
low_light_strict(als) == als < 100

\* line 333: the first reading selects the low light branch.
low_light(als) == als <= 100

\* lines 333, 342-343: the branch on the first reading.
AutoluxBranch(t) ==
    /\ thread[t].pc = "branch"
    /\ IF low_light(thread[t].als)
       THEN thread' = [thread EXCEPT ![t].pc = "low_loop"]
       ELSE thread' = [thread EXCEPT ![t].pc = "high_loop",
                                     ![t].use_correction = TRUE]
    /\ UNCHANGED <<dev, ctor, since_last_read, callers>>

\* low_continue giving up as soon as either index is at its end.
low_continue_either(als, gain_index, it_index) ==
    als <= 100 /\ ~(gain_index = 3 \/ it_index = 5)

\* line 334: the condition of the low light loop.
low_continue(als, gain_index, it_index) ==
    als <= 100 /\ ~(gain_index = 3 /\ it_index = 5)

\* low_adjust with the elif of line 338 written as an if.
low_adjust_if(gain_index, it_index) ==
    <<IF gain_index < 3 THEN gain_index + 1 ELSE gain_index,
      IF it_index < 5 THEN it_index + 1 ELSE it_index>>

\* low_adjust raising the integration time before the gain.
low_adjust_it_first(gain_index, it_index) ==
    IF it_index < 5 THEN <<gain_index, it_index + 1>>
    ELSE IF gain_index < 3 THEN <<gain_index + 1, it_index>>
    ELSE <<gain_index, it_index>>

\* lines 335-340: the indices after one adjustment of the low light loop.
low_adjust(gain_index, it_index) ==
    IF gain_index < 3 THEN <<gain_index + 1, it_index>>
    ELSE IF it_index < 5 THEN <<gain_index, it_index + 1>>
    ELSE <<gain_index, it_index>>

\* high_continue that also runs the loop body at index 0.
high_continue_ge0(als, it_index) ==
    als > 10000 /\ it_index >= 0

\* line 344: the condition of the high light loop.
high_continue(als, it_index) ==
    als > 10000 /\ it_index > 0

\* high_adjust stepping straight to the shortest integration time.
high_adjust_to_zero(it_index) == 0

\* line 345: the index after one adjustment of the high light loop.
high_adjust(it_index) == it_index - 1

\* AutoluxLow without the re-read of line 341: the loop tests the same
\* reading again after the write.
AutoluxLow_noreread(t) ==
    /\ thread[t].pc = "low_loop"
    /\ LET gain_index == thread[t].gain_index
           it_index == thread[t].it_index
           adjusted == low_adjust(gain_index, it_index)
       IN  IF low_continue(thread[t].als, gain_index, it_index)
           THEN /\ dev_gain' = IF adjusted[1] # gain_index
                               THEN At(gain_settings, adjusted[1])
                               ELSE dev_gain
                /\ dev_it' = IF adjusted[2] # it_index
                             THEN At(integration_time_settings, adjusted[2])
                             ELSE dev_it
                /\ thread' = [thread EXCEPT ![t].gain_index = adjusted[1],
                     ![t].it_index = adjusted[2],
                     ![t].writes = @ + 1]
                /\ UNCHANGED dev_sd
           ELSE /\ thread' = [thread EXCEPT ![t].pc = "compute"]
                /\ UNCHANGED dev
    /\ UNCHANGED <<ctor, since_last_read, callers>>

\* lines 334-340: the test of the low light loop and one adjustment; the
\* register of each index that changed is written with its new setting.
AutoluxLow(t) ==
    /\ thread[t].pc = "low_loop"
    /\ LET gain_index == thread[t].gain_index
           it_index == thread[t].it_index
           adjusted == low_adjust(gain_index, it_index)
       IN  IF low_continue(thread[t].als, gain_index, it_index)
           THEN \E ok \in BOOLEAN :
                  IF ok
                  THEN /\ dev_gain' = IF adjusted[1] # gain_index
                                      THEN At(gain_settings, adjusted[1])
                                      ELSE dev_gain
                       /\ dev_it' = IF adjusted[2] # it_index
                                    THEN At(integration_time_settings, adjusted[2])
                                    ELSE dev_it
                       /\ thread' = [thread EXCEPT ![t].gain_index = adjusted[1],
                            ![t].it_index = adjusted[2],
                            ![t].writes = @ + (IF adjusted[1] # gain_index THEN 1 ELSE 0)
                                            + (IF adjusted[2] # it_index THEN 1 ELSE 0),
                            ![t].pc = "read_wait", ![t].site = "low"]
                       /\ UNCHANGED dev_sd
                  ELSE Raise(t) /\ UNCHANGED dev
           ELSE /\ thread' = [thread EXCEPT ![t].pc = "compute"]
                /\ UNCHANGED dev
    /\ UNCHANGED <<ctor, since_last_read, callers>>

\* AutoluxHigh without the re-read of line 347: the loop tests the same
\* reading again after the write.
AutoluxHigh_noreread(t) ==
    /\ thread[t].pc = "high_loop"
    /\ LET it_index == thread[t].it_index
       IN  IF high_continue(thread[t].als, it_index)
           THEN /\ dev_it' = At(integration_time_settings, high_adjust(it_index))
                /\ thread' = [thread EXCEPT ![t].it_index = high_adjust(it_index),
                     ![t].writes = @ + 1]
                /\ UNCHANGED <<dev_gain, dev_sd>>
           ELSE /\ thread' = [thread EXCEPT ![t].pc = "compute"]
                /\ UNCHANGED dev
    /\ UNCHANGED <<ctor, since_last_read, callers>>

\* lines 344-346: the test of the high light loop and one adjustment.
AutoluxHigh(t) ==
    /\ thread[t].pc = "high_loop"
    /\ LET it_index == thread[t].it_index
       IN  IF high_continue(thread[t].als, it_index)
           THEN \E ok \in BOOLEAN :
                  IF ok
                  THEN /\ dev_it' = At(integration_time_settings, high_adjust(it_index))
                       /\ thread' = [thread EXCEPT ![t].it_index = high_adjust(it_index),
                            ![t].writes = @ + 1,
                            ![t].pc = "read_wait", ![t].site = "high"]
                       /\ UNCHANGED <<dev_gain, dev_sd>>
                  ELSE Raise(t) /\ UNCHANGED dev
           ELSE /\ thread' = [thread EXCEPT ![t].pc = "compute"]
                /\ UNCHANGED dev
    /\ UNCHANGED <<ctor, since_last_read, callers>>

\* line 349: return self.compute_lux(als, use_correction)
AutoluxCompute(t) ==
    /\ thread[t].pc = "compute"
    /\ \E ok \in BOOLEAN :
         IF ok
         THEN thread' = [thread EXCEPT ![t].pc = "done",
                 ![t].ret = compute_lux(dev_gain, dev_it, thread[t].als,
                                        thread[t].use_correction)]
         ELSE Raise(t)
    /\ UNCHANGED <<dev, ctor, since_last_read, callers>>

\* ----------------------------------------------------------------- time
\* The clock advances: between calls by any amount, inside a call by at
\* most MaxCallDelay since the last stamp.
Tick(d) ==
    /\ seeded
    /\ since_last_read < MaxElapsed
    /\ \/ \A t \in Threads : thread[t].pc = "idle"
       \/ since_last_read < MaxCallDelay
    /\ since_last_read' = Clip(since_last_read + d)
    /\ thread' = [t \in Threads |->
         IF thread[t].pc = "read_light"
         THEN [thread[t] EXCEPT !.since_prev = Clip(@ + d),
                                !.since_invoke = Clip(@ + d)]
         ELSE thread[t]]
    /\ UNCHANGED <<dev, ctor, callers>>

Next ==
    \/ CtorGain
    \/ CtorShutdown
    \/ \E t \in Threads :
         \/ Return(t)
         \/ \E g \in GainCodes : SetGain(t, g)
         \/ \E it \in ITCodes : SetIntegrationTime(t, it)
         \/ Resolution(t)
         \/ \E als \in Readings, uc \in BOOLEAN : ComputeLux(t, als, uc)
         \/ Lux(t)
         \/ \E w \in WaitTimes : WaitAutolux(t, w)
         \/ AutoluxBegin(t)
         \/ ReadAlsWait(t)
         \/ ReadLight(t)
         \/ AutoluxBranch(t)
         \/ AutoluxLow(t)
         \/ AutoluxHigh(t)
         \/ AutoluxCompute(t)
    \/ \E d \in TickSteps : Tick(d)

Spec == Init /\ [][Next]_vars

\* ------------------------------------------------- unserialized callers
\* The instance as __init__ leaves it when its first attempt succeeds (gain
\* 1/8 written, shutdown cleared, last_read just taken), shared by either
\* one caller or two callers with nothing to serialize their calls.
InitConc ==
    /\ dev_gain = ALS_GAIN_1_8
    /\ dev_it \in ITCodes
    /\ dev_sd = FALSE
    /\ inst = "ok"
    /\ attempt = 1
    /\ fails = 0
    /\ seeded = TRUE
    /\ since_last_read = 0
    /\ callers \in {{"t1"}, Threads}
    /\ thread = [t \in Threads |-> IdleLocals]

\* The points of a call of autolux at which the model lets the other
\* caller in: between the final read and the conversion.
PreemptPoints == {"compute"}

\* t may take a step of a call of autolux: the first caller whenever the
\* second is in no call; the second while the first, having needed no
\* adjustment, is at a preemption point, until the second's call is over.
MayStep(t) ==
    IF t = "t1"
    THEN thread["t2"].pc = "idle"
    ELSE thread["t1"].pc \in PreemptPoints /\ thread["t1"].writes = 0

\* Calls of autolux only: the second caller's call runs between two steps
\* of the first caller's call.
NextConc ==
    \/ \E t \in Threads : MayStep(t) /\ Return(t)
    \/ \E t \in Threads : MayStep(t) /\ AutoluxBegin(t)
    \/ \E t \in Threads : MayStep(t) /\ ReadAlsWait(t)
    \/ \E t \in Threads : MayStep(t) /\ ReadLight(t)
    \/ \E t \in Threads : MayStep(t) /\ AutoluxBranch(t)
    \/ \E t \in Threads : MayStep(t) /\ AutoluxLow(t)
    \/ \E t \in Threads : MayStep(t) /\ AutoluxHigh(t)
    \/ \E t \in Threads : MayStep(t) /\ AutoluxCompute(t)

SpecConc == InitConc /\ [][NextConc]_vars

\* ========================================================== properties
\* A thread's call of autolux that has taken its first reading; its path.
InAutolux(t) == thread[t].op = "autolux" /\ thread[t].first_als # NoReading
LowPath(t) == InAutolux(t) /\ thread[t].first_als <= 100
HighPath(t) == InAutolux(t) /\ thread[t].first_als > 100
AfterLoopTest == {"branch", "low_loop", "high_loop", "compute", "done"}

\* ---- C1
C1_LowInv ==
    \A t \in Threads :
      LowPath(t) =>
        /\ thread[t].gain_index \in 0..3
        /\ thread[t].it_index \in 2..5
        /\ thread[t].reads <= 7
        /\ thread[t].pc = "branch" =>
             thread[t].gain_index = 0 /\ thread[t].it_index = 2
        /\ thread[t].pc \in AfterLoopTest =>
             thread[t].reads - 1 = thread[t].gain_index + (thread[t].it_index - 2)

C1_LowStep ==
    \A t \in Threads :
      (LowPath(t) /\ thread[t].pc = "low_loop" /\ thread'[t] # thread[t]) =>
        IF thread[t].als > 100 \/ (thread[t].gain_index = 3 /\ thread[t].it_index = 5)
        THEN /\ thread'[t].pc = "compute"
             /\ thread'[t].gain_index = thread[t].gain_index
             /\ thread'[t].it_index = thread[t].it_index
        ELSE \/ thread'[t].pc = "raised"
             \/ /\ thread'[t].pc = "read_wait"
                /\ \/ /\ thread'[t].gain_index = thread[t].gain_index + 1
                      /\ thread'[t].it_index = thread[t].it_index
                   \/ /\ thread'[t].gain_index = thread[t].gain_index
                      /\ thread'[t].it_index = thread[t].it_index + 1

\* C1: in an autolux call whose first guarded reading is <= 100, whatever
\* the later readings are, the indices start at (0, 2), every iteration of
\* the loop raises exactly one of gain_index and it_index by exactly 1, the
\* loop is left as soon as a reading is > 100 or the indices are (3, 5),
\* and the call takes at most 6 guarded reads after the first.
C1_LowPathSteps == [] C1_LowInv /\ [][C1_LowStep]_vars

\* C1 witness: a low light call that used all 6 adjustments and returned.
C1_Witness ==
    /\ LowPath("t1") /\ thread["t1"].pc = "done"
    /\ thread["t1"].reads = 7
    /\ thread["t1"].gain_index = 3 /\ thread["t1"].it_index = 5

\* ---- C2
C2_HighInv ==
    \A t \in Threads :
      HighPath(t) =>
        /\ thread[t].it_index \in 0..2
        /\ thread[t].gain_index = 0
        /\ thread[t].reads <= 3
        /\ thread[t].pc \in AfterLoopTest =>
             thread[t].reads - 1 = 2 - thread[t].it_index

C2_HighStep ==
    \A t \in Threads :
      (HighPath(t) /\ thread[t].pc = "high_loop" /\ thread'[t] # thread[t]) =>
        IF thread[t].als > 10000 /\ thread[t].it_index > 0
        THEN \/ thread'[t].pc = "raised"
             \/ /\ thread'[t].pc = "read_wait"
                /\ thread'[t].it_index = thread[t].it_index - 1
        ELSE /\ thread'[t].pc = "compute"
             /\ thread'[t].it_index = thread[t].it_index

\* C2: in an autolux call whose first guarded reading is > 100, whatever
\* the later readings are, it_index goes down by exactly 1 per iteration
\* while the latest reading is > 10000, never goes below 0, and the call
\* takes at most 2 guarded reads after the first.
C2_HighPathSteps == [] C2_HighInv /\ [][C2_HighStep]_vars

\* C2 witness: a high light call that went down to it_index 0 and returned.
C2_Witness ==
    /\ HighPath("t1") /\ thread["t1"].pc = "done"
    /\ thread["t1"].reads = 3 /\ thread["t1"].it_index = 0

\* ---- C3
\* A call of autolux by t has returned normally.
AutoluxReturned(t) == thread[t].op = "autolux" /\ thread[t].pc = "done"

\* C3 as stated: whenever autolux returns normally, the reading it converts
\* is in the usable band (100 < als <= 10000), or it is <= 100 with gain
\* and integration time both at their highest setting, or it is > 10000
\* with the integration time at its shortest setting.
C3_InBandOrExhausted ==
    \A t \in Threads :
      AutoluxReturned(t) =>
        \/ thread[t].als > 100 /\ thread[t].als <= 10000
        \/ /\ thread[t].als <= 100
           /\ dev_gain = ALS_GAIN_2 /\ dev_it = ALS_800MS
        \/ thread[t].als > 10000 /\ dev_it = ALS_25MS

\* C3 amended: whenever autolux returns normally, then on the low light
\* path (first reading <= 100) the final reading is > 100 or gain and
\* integration time are both at their highest setting, and on the high
\* light path (first reading > 100) the final reading is <= 10000 or the
\* integration time is at its shortest setting.
C3_ExitCondition ==
    \A t \in Threads :
      AutoluxReturned(t) =>
        /\ thread[t].first_als <= 100 =>
             \/ thread[t].als > 100
             \/ dev_gain = ALS_GAIN_2 /\ dev_it = ALS_800MS
        /\ thread[t].first_als > 100 =>
             \/ thread[t].als <= 10000
             \/ dev_it = ALS_25MS

\* C3 witness: a low light call returns a reading that jumped over the band.
C3_Witness ==
    /\ AutoluxReturned("t1")
    /\ thread["t1"].first_als <= 100
    /\ thread["t1"].als > 10000
    /\ thread["t1"].writes = 1

\* ---- C4
\* C4: at every guarded raw read taken during autolux, gain_index and
\* it_index are the positions of the gain and integration time latched in
\* the device: device gain = gain_settings[gain_index] and device
\* integration time = integration_time_settings[it_index].
C4_IndicesMatchDevice ==
    \A t \in Threads :
      (thread[t].op = "autolux" /\ thread[t].pc = "read_light") =>
        /\ dev_gain = At(gain_settings, thread[t].gain_index)
        /\ dev_it = At(integration_time_settings, thread[t].it_index)

\* ---- C5
\* C5: when _read_als_wait is about to read the light register, at least
\* 2 * integration_time_ms (the integration time latched at this call) has
\* passed since the last_read stamped before this call, and the last_read
\* this call stamped is not earlier than the call's invocation.
C5_ReadSpacing ==
    \A t \in Threads :
      thread[t].pc = "read_light" =>
        /\ thread[t].since_prev >= 2 * integration_time_values[dev_it]
        /\ since_last_read <= thread[t].since_invoke

\* C5 witness: a re-read inside autolux, after the integration time was
\* raised, for which _read_als_wait had to sleep.
C5_Witness ==
    /\ thread["t1"].pc = "read_light"
    /\ thread["t1"].reads >= 4
    /\ thread["t1"].it_index = 3 /\ dev_it = ALS_200MS
    /\ thread["t1"].slept > 0

\* ---- C6
\* C6: autolux returns the corrected lux exactly when its first guarded
\* reading is > 100, whatever the later readings; when the first reading is
\* in 101..10000 it writes no register, takes no further reading and
\* returns compute_lux(first reading, use_correction = true).
C6_CorrectionByFirstReading ==
    \A t \in Threads :
      AutoluxReturned(t) =>
        /\ thread[t].ret.kind = "lux"
        /\ thread[t].ret.corrected = (thread[t].first_als > 100)
        /\ thread[t].ret.val = resolution(dev_gain, dev_it) * thread[t].als
        /\ (thread[t].first_als > 100 /\ thread[t].first_als <= 10000) =>
             /\ thread[t].writes = 0
             /\ thread[t].reads = 1
             /\ thread[t].ret =
                  compute_lux(dev_gain, dev_it, thread[t].first_als, TRUE)

\* C6 witness: autolux returns after a first reading inside the band.
C6_Witness ==
    /\ AutoluxReturned("t1")
    /\ thread["t1"].first_als = 101
    /\ thread["t1"].ret.corrected
    /\ thread["t1"].ret.val > 0

\* ---- C7
C7_CtorInv ==
    /\ attempt \in 1..3
    /\ fails \in 0..3
    /\ inst \in {"gain", "shutdown"} => fails = attempt - 1 /\ ~seeded
    /\ inst = "failed" <=> fails = 3
    /\ inst = "failed" => ~seeded
    /\ inst = "ok" => seeded /\ fails < 3

C7_CtorStep ==
    /\ (inst # "ok" /\ inst' = "ok") =>
         /\ inst = "shutdown"
         /\ fails' = fails
         /\ dev_gain' = ALS_GAIN_1_8
         /\ dev_sd' = FALSE
    /\ attempt' # attempt => attempt' = attempt + 1 /\ fails' = fails + 1
    /\ fails' # fails => fails' = fails + 1 /\ inst' \in {"gain", "failed"}
    /\ inst \in {"ok", "failed"} => inst' = inst /\ fails' = fails

\* C7: construction makes at most 3 attempts of (write gain 1/8, write
\* shutdown false); a new attempt starts only after the previous one raised
\* OSError in one of its writes and none starts after an attempt in which both
\* writes succeeded; construction fails, with last_read never seeded, exactly
\* when 3 attempts have failed; when it succeeds the device gain is 1/8 and
\* the sensor is enabled.
C7_ConstructionRetries == [] C7_CtorInv /\ [][C7_CtorStep]_vars

\* C7 witness: all three attempts failed and no instance exists.
C7_Witness == inst = "failed" /\ fails = 3 /\ attempt = 3 /\ ~seeded

\* ---- C8
C8_FaultInv ==
    \A t \in Threads :
      /\ thread[t].fault => thread[t].pc = "raised"
      /\ thread[t].pc = "raised" =>
           thread[t].ret = NoRet /\ thread[t].als = NoReading

C8_FaultStep ==
    \A t \in Threads :
      /\ (thread'[t].op = "autolux" /\ thread[t].pc # "raised"
          /\ thread'[t].pc = "raised") =>
           /\ dev' = dev
           /\ since_last_read' = since_last_read
           /\ thread'[t].reads = thread[t].reads
           /\ thread'[t].writes = thread[t].writes
      /\ (thread[t].op = "autolux" /\ thread[t].pc = "raised"
          /\ thread'[t] # thread[t]) =>
           thread'[t] = IdleLocals /\ dev' = dev

\* C8: a register read or write that fails with a transport error at any
\* step of autolux ends the call at that step: the call is left with the
\* error, it returns no lux value and holds no reading, the failing step
\* and the steps after it change no register and take no further reading,
\* and the call is not resumed.
C8_AbortOnTransportError == [] C8_FaultInv /\ [][C8_FaultStep]_vars

\* C8 witness: autolux left with the error after it had already taken a
\* reading and written a register.
C8_Witness ==
    /\ thread["t1"].op = "autolux" /\ thread["t1"].pc = "raised"
    /\ thread["t1"].fault
    /\ thread["t1"].reads >= 1 /\ thread["t1"].writes >= 1

\* ---- C9
\* C9: wait_autolux(w) sleeps exactly once, for the larger of w and the
\* latched integration time (in ms here), so at least the integration time
\* has passed when it returns; w = 0 with 400 ms latched sleeps 400 ms and
\* w = 1000 ms with 25 ms latched sleeps 1000 ms.
C9_WaitAutoluxSleepsMax ==
    \A t \in Threads :
      (thread[t].op = "wait_autolux" /\ thread[t].pc = "done") =>
        /\ thread[t].sleeps = 1
        /\ thread[t].slept >= thread[t].wait_time
        /\ thread[t].slept >= integration_time_values[dev_it]
        /\ thread[t].slept \in {thread[t].wait_time, integration_time_values[dev_it]}
        /\ thread[t].since_invoke >= integration_time_values[dev_it]
        /\ (thread[t].wait_time = 0 /\ dev_it = ALS_400MS) => thread[t].slept = 400
        /\ (thread[t].wait_time = 1000 /\ dev_it = ALS_25MS) => thread[t].slept = 1000

\* C9 witness: wait_autolux(0) with 400 ms latched has slept 400 ms.
C9_Witness ==
    /\ thread["t1"].op = "wait_autolux" /\ thread["t1"].pc = "done"
    /\ thread["t1"].wait_time = 0 /\ dev_it = ALS_400MS
    /\ thread["t1"].slept = 400

\* ---- C10
C10_ResolutionInv ==
    \A t \in Threads :
      (thread[t].op = "resolution" /\ thread[t].pc = "done") =>
        /\ thread[t].ret.val * integration_time_values[dev_it] * gain_values[dev_gain]
             = 42 * 800 * 16
        /\ (dev_gain = ALS_GAIN_2 /\ dev_it = ALS_800MS) => thread[t].ret.val = 42

C10_ResolutionStep ==
    (/\ gain_values[dev_gain'] >= gain_values[dev_gain]
     /\ integration_time_values[dev_it'] >= integration_time_values[dev_it]
     /\ <<dev_gain', dev_it'>> # <<dev_gain, dev_it>>)
    => resolution(dev_gain', dev_it') < resolution(dev_gain, dev_it)

\* C10: for each of the 24 latched settings, resolution() returns
\* 42 * (800 / t) * (2 / g) (in 0.0001 lux per count; g in eighths makes
\* this val * t * g8 = 42 * 800 * 16), which is 42 at gain 2 and 800 ms; the
\* value comes from the latched codes through the two value tables, and
\* every register write that raises gain or integration time (and lowers
\* neither) lowers it strictly.
C10_ResolutionFormula == [] C10_ResolutionInv /\ [][C10_ResolutionStep]_vars

\* C10 witness: resolution() at gain 1/8 and 25 ms, the largest value.
C10_Witness ==
    /\ thread["t1"].op = "resolution" /\ thread["t1"].pc = "done"
    /\ dev_gain = ALS_GAIN_1_8 /\ dev_it = ALS_25MS
    /\ thread["t1"].ret.val = 21504

\* This step is one in which t's autolux call writes a register.
AutoluxWrites(t) ==
    thread[t].op = "autolux" /\ thread'[t].writes > thread[t].writes

\* ---- C11
C11_WriteDirection ==
    \A t \in Threads :
      AutoluxWrites(t) =>
        /\ LowPath(t) =>
             /\ gain_values[dev_gain'] >= gain_values[dev_gain]
             /\ integration_time_values[dev_it'] >= integration_time_values[dev_it]
        /\ HighPath(t) =>
             integration_time_values[dev_it'] <= integration_time_values[dev_it]

\* C11: whatever the device held before the call, no register write of the
\* low light path of autolux lowers the gain or the integration time
\* latched in the device, and no register write of the high light path
\* raises the latched integration time.
C11_WritesMoveSensitivity == [][C11_WriteDirection]_vars

\* ---- C12
C12_NoChangeAtLimit ==
    \A t \in Threads :
      (thread[t].op = "autolux" /\ thread[t].writes = 0
       /\ thread'[t] # thread[t] /\ thread'[t].pc # "raised") =>
        /\ (/\ thread[t].pc = "high_loop"
            /\ dev_it = ALS_25MS
            /\ thread[t].als > 10000) =>
             thread'[t].pc = "compute" /\ dev' = dev
        /\ (/\ thread[t].pc = "low_loop"
            /\ dev_gain = ALS_GAIN_2 /\ dev_it = ALS_800MS
            /\ thread[t].als <= 100) =>
             thread'[t].pc = "compute" /\ dev' = dev

\* C12: an autolux call that finds the device at 25 ms and reads > 10000
\* first leaves the loop without writing any register and goes on to convert
\* that reading; one that finds the device at gain 2 and 800 ms and reads
\* <= 100 leaves the loop without writing any register, the device still at
\* gain 2 and 800 ms (steps in which no transport error occurs).
C12_LimitsAlreadyReached == [][C12_NoChangeAtLimit]_vars

\* ---- C13
C13_OrderInv ==
    \A t \in Threads :
      /\ LowPath(t) =>
           /\ thread[t].it_index > 2 => thread[t].gain_index = 3
           /\ thread[t].writes = thread[t].gain_index + (thread[t].it_index - 2)
      /\ HighPath(t) => thread[t].gain_index = 0

C13_OrderStep ==
    \A t \in Threads :
      AutoluxWrites(t) =>
        /\ thread'[t].writes = thread[t].writes + 1
        /\ LowPath(t) =>
             IF thread[t].writes < 3
             THEN /\ thread'[t].gain_index = thread[t].gain_index + 1
                  /\ thread'[t].it_index = 2
                  /\ dev_it' = dev_it
                  /\ dev_gain' = CASE thread'[t].writes = 1 -> ALS_GAIN_1_4
                                   [] thread'[t].writes = 2 -> ALS_GAIN_1
                                   [] thread'[t].writes = 3 -> ALS_GAIN_2
             ELSE /\ thread'[t].gain_index = 3 /\ thread[t].gain_index = 3
                  /\ thread'[t].it_index = thread[t].it_index + 1
                  /\ dev_gain' = dev_gain
                  /\ dev_it' = At(integration_time_settings, thread'[t].it_index)
        /\ HighPath(t) =>
             /\ dev_gain' = dev_gain
             /\ thread'[t].gain_index = thread[t].gain_index

\* C13: on the low light path of autolux the first three register writes
\* are gain writes of 1/4, 1 and 2 in that order, every integration time
\* write comes after them (gain_index is 3 by then) and no gain write
\* follows an integration time write; on the high light path the gain
\* register is never written.
C13_AdjustmentOrder == [] C13_OrderInv /\ [][C13_OrderStep]_vars

\* C13 witness: the low light path has just made its first integration
\* time write, after the three gain writes.
C13_Witness ==
    /\ LowPath("t1") /\ thread["t1"].pc = "read_wait"
    /\ thread["t1"].writes = 4
    /\ thread["t1"].gain_index = 3 /\ thread["t1"].it_index = 3
    /\ dev_gain = ALS_GAIN_2 /\ dev_it = ALS_200MS

\* ---- C14
PlainOps == {"lux", "compute_lux", "resolution", "wait_autolux"}

C14_FrameInv ==
    \A t \in Threads :
      (thread[t].op = "lux" /\ thread[t].pc = "done") =>
        /\ thread[t].ret.val = resolution(dev_gain, dev_it) * thread[t].als
        /\ ~thread[t].ret.corrected

C14_FrameStep ==
    /\ \A t \in Threads :
         (thread'[t].op \in PlainOps /\ thread'[t] # thread[t]) =>
           /\ dev' = dev
           /\ since_last_read' >= since_last_read
    /\ since_last_read' < since_last_read =>
         \/ inst = "shutdown" /\ inst' = "ok"
         \/ \E t \in Threads :
              thread[t].pc = "read_wait" /\ thread'[t].pc = "read_light"

\* C14: lux, compute_lux, resolution and wait_autolux write no register and
\* do not stamp last_read (the time since last_read never goes down in
\* their steps; a read through lux is not guarded and does not count for
\* the spacing); last_read is stamped only by construction and by
\* _read_als_wait; lux returns resolution() * light, uncorrected.
C14_PlainOpsFrame == [] C14_FrameInv /\ [][C14_FrameStep]_vars

\* C14 witness: lux has returned a non-zero value some time after the last
\* guarded read, last_read untouched.
C14_Witness ==
    /\ thread["t1"].op = "lux" /\ thread["t1"].pc = "done"
    /\ thread["t1"].ret.val > 0
    /\ since_last_read > 0

\* ---- C16
ReadPending == {"read_wait", "read_light"}

C16_WriteReadInv ==
    \A t \in Threads :
      thread[t].op = "autolux" =>
        /\ thread[t].writes <= 6
        /\ thread[t].pc \in AfterLoopTest => thread[t].writes = thread[t].reads - 1
        /\ thread[t].pc \in ReadPending => thread[t].writes = thread[t].reads
        /\ thread[t].pc \in {"compute", "done"} =>
             dev_gain = thread[t].read_gain /\ dev_it = thread[t].read_it
        /\ thread[t].pc = "done" =>
             thread[t].ret.val
               = resolution(thread[t].read_gain, thread[t].read_it) * thread[t].als

C16_WriteReadStep ==
    \A t \in Threads :
      AutoluxWrites(t) =>
        /\ thread[t].pc \in {"low_loop", "high_loop"}
        /\ thread'[t].pc = "read_wait"
        /\ thread'[t].writes = thread[t].writes + 1

\* C16: within one autolux call made on its own, every register write is
\* made from a loop test and leads to exactly one guarded read before the
\* next write or the return (writes = reads - 1 whenever a reading has just
\* been taken), no write comes between the final read and the conversion
\* (the device holds the settings of the final read then), the value
\* returned is resolution(settings latched at the final read) * final
\* reading, and the call makes at most 6 register writes.
C16_WriteThenRead == [] C16_WriteReadInv /\ [][C16_WriteReadStep]_vars

\* C16 witness: autolux returns after 6 writes, each followed by its read.
C16_Witness ==
    /\ AutoluxReturned("t1")
    /\ thread["t1"].writes = 6 /\ thread["t1"].reads = 7
    /\ thread["t1"].read_gain = ALS_GAIN_2 /\ thread["t1"].read_it = ALS_800MS
    /\ thread["t1"].ret.val = 42 * 100

\* ---- C15
\* The value t's autolux call returned is not the resolution of the
\* settings latched when its reading was taken times that reading.
ConvertedUnderOtherSettings(t) ==
    /\ AutoluxReturned(t)
    /\ thread[t].ret.val
         # resolution(thread[t].read_gain, thread[t].read_it) * thread[t].als

\* C15: with a single caller, whose autolux calls run one after the other,
\* no call converts its reading with a resolution of settings other than
\* those latched when the reading was taken, and at the conversion the
\* device still holds those settings; such a conversion happens only when
\* two callers share the instance unserialized (the witness shows it does).
C15_MismatchOnlyUnserialized ==
    \A t \in Threads :
      /\ ConvertedUnderOtherSettings(t) => callers = Threads
      /\ (callers = {"t1"} /\ thread[t].op = "autolux"
          /\ thread[t].pc \in {"compute", "done"}) =>
           dev_gain = thread[t].read_gain /\ dev_it = thread[t].read_it

\* C15 witness: with two unserialized callers, the first caller's autolux
\* returns a value converted under settings the second caller's autolux
\* wrote after the first caller's final read.
C15_Witness ==
    /\ callers = Threads
    /\ ConvertedUnderOtherSettings("t1")
    /\ thread["t1"].als > 0
    /\ <<dev_gain, dev_it>> # <<thread["t1"].read_gain, thread["t1"].read_it>>

\* ---- C17
\* C17: once the instance is constructed, the gain register holds a code of
\* gain_settings and the integration-time register a code of
\* integration_time_settings, both codes are keys of the value tables (so
\* gain_value(), integration_time_value() and resolution() find them), and
\* the indices autolux writes with stay within 0..3 (gain) and 0..5
\* (integration time).
C17_CodesAndIndicesValid ==
    inst = "ok" =>
      /\ dev_gain \in GainCodes /\ dev_gain \in DOMAIN gain_values
      /\ dev_it \in ITCodes /\ dev_it \in DOMAIN integration_time_values
      /\ \A t \in Threads :
           /\ thread[t].gain_index \in 0..3
           /\ thread[t].it_index \in 0..5

\* C17 witness: autolux returns after stepping the integration time down
\* to index 0: the register holds the 25 ms code and the conversion found
\* its value.
C17_Witness ==
    /\ AutoluxReturned("t1")
    /\ thread["t1"].writes = 2
    /\ thread["t1"].it_index = 0
    /\ dev_it = ALS_25MS
    /\ thread["t1"].ret.val
         = resolution(dev_gain, dev_it) * thread["t1"].als

====
